---------------------------- MODULE Spec2Model ----------------------------
(***************************************************************************)
(* A model of the PrinterManager of cups-connector                         *)
(* (manager/printermanager.go): the constructor, the reconciliation loop   *)
(* (syncPrintersPeriodically / syncPrinters / applyDiff), Quit, the job    *)
(* intake (listenGCPJobs), and the per-job pipeline (processJob /          *)
(* assembleJob / followJob).                                               *)
(*                                                                         *)
(* The packages lib, gcp and cups are not part of manager/: lib.Semaphore, *)
(* lib.ConcurrentPrinterMap, lib.DiffPrinters and CUPSJobState.GCPJobState *)
(* are modelled from their description; the gcp and cups adapters are the  *)
(* environment, and every call on them returns nondeterministically.       *)
(***************************************************************************)
EXTENDS Integers, Sequences, FiniteSets, TLC

(***************************************************************************)
(* Bounds of the model.                                                    *)
(***************************************************************************)
\* printers the cloud lists at start-up (gcp.List)
MaxListed == 2
\* tick-triggered reconcile rounds of the periodic loop
MaxRounds == 2
\* printer-update events delivered by gcp.NextPrinterWithUpdates
MaxUpdates == 1
\* processJob goroutines spawned by the dispatcher
MaxProcs == 2
\* distinct cloud job ids
MaxJobs == 2
\* printers registered with the cloud after start-up
MaxRegistered == 2
\* jobs in one batch of gcp.Fetch or gcp.NextJobBatch
MaxBatch == 1
\* polls of cups.GetJobState made by one followJob
MaxPolls == 2
\* page counts reported by cups.GetJobState are 0..MaxPages
MaxPages == 1
\* configuration: cupsQueueSize and gcpMaxConcurrentDownload
CUPSQueueSize == 1
MaxConcurrentDownload == 1

\* math.MaxInt64 as a duration: larger than every printer's ping interval
MaxInt64 == 9

CupsNames == {"A", "B"}
\* descriptive attributes of a local printer; 0 stands for "not listed"
Attrs == {1, 2}
\* XMPP ping intervals a printer can have
Pings == {1, 2}
JobIds == 1..MaxJobs

(***************************************************************************)
(* lib.Printer.  GCPID 0 is the empty string, CUPSJobSemaphore 0 is nil;   *)
(* a semaphore is a pointer: an index into sems.                           *)
(***************************************************************************)
EmptyPrinter ==
  [GCPID |-> 0, Name |-> "", attr |-> 0, XMPPPingInterval |-> 0,
   CUPSJobSemaphore |-> 0]

\* gcp.List's possible printer lists: GCPIDs 1..n, any names, any intervals
ListResults ==
  UNION {[1..n -> [Name : CupsNames, XMPPPingInterval : Pings]] : n \in 0..MaxListed}

CupsLists == [CupsNames -> {0} \cup Attrs]

(***************************************************************************)
(* lib.ConcurrentPrinterMap: a map from GCPID to printer, replaced whole.  *)
(***************************************************************************)
NewConcurrentPrinterMap(printers) ==
  [id \in {printers[i].GCPID : i \in DOMAIN printers} |->
     printers[CHOOSE i \in DOMAIN printers :
                /\ printers[i].GCPID = id
                /\ \A j \in DOMAIN printers : printers[j].GCPID = id => j <= i]]

GetAll(m) == {m[id] : id \in DOMAIN m}

(***************************************************************************)
(* lib.DiffPrinters: Register a local name with no cloud match; Update or  *)
(* NoChange a name on both sides (the diff carries the cloud printer with  *)
(* the local attributes); Delete a cloud printer whose name is not local   *)
(* or that lost the tie for its name (the older registration wins).        *)
(* nil (here {}) when nothing is to be done.                               *)
(***************************************************************************)
CloudMatch(name, cloud) ==
  {p \in cloud : /\ p.Name = name
                 /\ \A q \in cloud : q.Name = name => p.GCPID <= q.GCPID}

DiffPrinters(local, cloud) ==
  LET reg == {[Operation |-> "RegisterPrinter",
               Printer |-> [EmptyPrinter EXCEPT !.Name = n, !.attr = local[n]]] :
                n \in {m \in CupsNames : local[m] # 0 /\ CloudMatch(m, cloud) = {}}}
      upd == {[Operation |-> IF p.attr # local[p.Name] THEN "UpdatePrinter"
                             ELSE "NoChangeToPrinter",
               Printer |-> [p EXCEPT !.attr = local[p.Name]]] :
                p \in {q \in cloud : /\ local[q.Name] # 0
                                     /\ q \in CloudMatch(q.Name, cloud)}}
      del == {[Operation |-> "DeletePrinter", Printer |-> p] :
                p \in {q \in cloud : \/ local[q.Name] = 0
                                     \/ q \notin CloudMatch(q.Name, cloud)}}
      all == reg \cup upd \cup del
  IN  IF \A d \in all : d.Operation = "NoChangeToPrinter" THEN {} ELSE all

\* the minimum of lines 79-84, starting from math.MaxInt64
MinXMPPPingInterval(printers) ==
  IF printers = {} THEN MaxInt64
  ELSE CHOOSE m \in {p.XMPPPingInterval : p \in printers} \cup {MaxInt64} :
         \A p \in printers : m <= p.XMPPPingInterval /\ m <= MaxInt64

VARIABLES
  \* the environment
  cloudList,        \* what gcp.List returns at start-up
  cloudQueued,      \* the keys of List's queued-job-count map
  cupsPrinters,     \* the list cups.GetPrinters returned last (after the raw filter)
  nextGCPID,        \* the next id the cloud issues on Register
  \* the PrinterManager
  ctorPc,           \* position of NewPrinterManager
  gcpPrintersByGCPID,
  connectorPing,    \* last value given to gcp.SetConnectorXMPPPingInterval
  sems,             \* every lib.Semaphore made for a printer: its held count
  downloadSemaphore,
  jobsInFlight, jobsDone, jobsError,
  \* syncPrinters, one activation per caller
  sync,
  lastFailed, retryDue, lastDiffs,
  \* syncPrintersPeriodically, Quit, listenGCPPrinterUpdates
  loopPc, timer, rounds, quitPc, listener, updates, pingHandled,
  \* listenGCPJobs
  spawnLeft, gcpID, fetchers, pushBatch, dispatcher,
  \* processJob goroutines
  procs

envVars == <<cloudList, cloudQueued, cupsPrinters, nextGCPID>>
pmVars == <<gcpPrintersByGCPID, connectorPing, sems, downloadSemaphore,
            jobsInFlight, jobsDone, jobsError>>
syncVars == <<sync, lastFailed, retryDue, lastDiffs>>
loopVars == <<loopPc, timer, rounds, quitPc, listener, updates, pingHandled>>
intakeVars == <<spawnLeft, gcpID, fetchers, pushBatch, dispatcher>>
vars == <<envVars, ctorPc, pmVars, syncVars, loopVars, intakeVars, procs>>

SyncOwners == {"ctor", "loop"}

IdleSync ==
  [pc |-> "idle", diffs |-> {}, pending |-> {}, ch |-> <<>>, got |-> 0,
   current |-> <<>>, err |-> FALSE]

\* a processJob goroutine: its position and locals (job, printer, file,
\* cause; followJob's cupsState, gcpState, pages), and its history: the
\* failure it met, its polls, its Control calls (their number, the number
\* with state Aborted, the state and cause of the last), its Print calls
\* and the counter it incremented
IdleProc ==
  [pc |-> "idle", job |-> 0, printerID |-> 0, printer |-> EmptyPrinter,
   file |-> "none", cause |-> "", failure |-> "",
   cupsState |-> "", gcpState |-> "", pages |-> 0, polls |-> 0,
   controls |-> 0, aborted |-> 0, last |-> <<>>, prints |-> 0, counted |-> ""]

InitCommon ==
  /\ cupsPrinters = [n \in CupsNames |-> 0]
  /\ nextGCPID = Len(cloudList) + 1
  /\ ctorPc = "List"
  /\ gcpPrintersByGCPID = <<>>
  /\ connectorPing = 0
  /\ sems = <<>>
  /\ downloadSemaphore = 0
  /\ jobsInFlight = {}
  /\ jobsDone = 0
  /\ jobsError = 0
  /\ sync = [o \in SyncOwners |-> IdleSync]
  /\ lastFailed = {}
  /\ retryDue = {}
  /\ lastDiffs = {}
  /\ loopPc = "notStarted"
  /\ timer = "none"
  /\ rounds = 0
  /\ quitPc = "idle"
  /\ listener = -1
  /\ updates = 0
  /\ pingHandled = 0
  /\ spawnLeft = {}
  /\ gcpID = 0
  /\ fetchers = <<>>
  /\ pushBatch = <<>>
  /\ dispatcher = "notStarted"
  /\ procs = [p \in 1..MaxProcs |-> IdleProc]

Init ==
  /\ cloudList \in ListResults
  /\ cloudQueued \in SUBSET (1..Len(cloudList))
  /\ InitCommon

(***************************************************************************)
(* NewPrinterManager, lines 52-109: List, a semaphore per listed printer,  *)
(* the pending ping-interval changes, the connector's ping interval, the   *)
(* manager's fields.  No goroutine runs yet, so this is one step.          *)
(***************************************************************************)
\* a constructor that launches the periodic loop before its own round
NewPrinterManager_List_LoopFirst ==
  /\ ctorPc = "List"
  /\ LET printers == [i \in DOMAIN cloudList |->
                        [GCPID |-> i, Name |-> cloudList[i].Name, attr |-> 1,
                         XMPPPingInterval |-> cloudList[i].XMPPPingInterval,
                         CUPSJobSemaphore |-> i]]
         m == NewConcurrentPrinterMap(printers)
     IN  /\ sems' = [i \in DOMAIN cloudList |-> 0]
         /\ gcpPrintersByGCPID' = m
         /\ connectorPing' = MinXMPPPingInterval(GetAll(m))
         /\ sync' = [sync EXCEPT !["ctor"].pc = "start"]
         /\ ctorPc' = "sync"
         /\ loopPc' = "select"
         /\ timer' = "armed"
  /\ UNCHANGED <<envVars, downloadSemaphore, jobsInFlight, jobsDone, jobsError,
                 lastFailed, retryDue, lastDiffs, rounds, quitPc, listener,
                 updates, pingHandled, intakeVars, procs>>

NewPrinterManager_List ==
  /\ ctorPc = "List"
  /\ \/ \* gcp.List fails, or SetPrinterXMPPPingInterval fails for a listed printer
        /\ ctorPc' = "failed"
        /\ UNCHANGED <<pmVars, sync>>
     \/ LET printers == [i \in DOMAIN cloudList |->
                           [GCPID |-> i, Name |-> cloudList[i].Name, attr |-> 1,
                            XMPPPingInterval |-> cloudList[i].XMPPPingInterval,
                            CUPSJobSemaphore |-> i]]
            m == NewConcurrentPrinterMap(printers)
        IN  /\ sems' = [i \in DOMAIN cloudList |-> 0]
            /\ gcpPrintersByGCPID' = m
            /\ connectorPing' = MinXMPPPingInterval(GetAll(m))
            /\ downloadSemaphore' = 0
            /\ jobsInFlight' = {}
            /\ jobsDone' = 0
            /\ jobsError' = 0
            /\ sync' = [sync EXCEPT !["ctor"].pc = "start"]
            /\ ctorPc' = "sync"
  /\ UNCHANGED <<envVars, lastFailed, retryDue, lastDiffs, loopVars,
                 intakeVars, procs>>

(***************************************************************************)
(* syncPrinters, lines 166-199.  GetPrinters (and the raw filter) returns   *)
(* one of lists; the diff against the table; one applyDiff goroutine per   *)
(* diff.                                                                   *)
(* cupsPrinters keeps the list the latest round saw.  lastFailed, retryDue *)
(* and lastDiffs record history: the diffs whose cloud operation failed in *)
(* the round before, those of them due again because this round sees the   *)
(* same local list, and the diffs this round computed.                     *)
(***************************************************************************)
SyncPrinters_Start(o, lists) ==
  /\ sync[o].pc = "start"
  /\ \/ \* cups.GetPrinters fails: line 171
        /\ sync' = [sync EXCEPT ![o] = [IdleSync EXCEPT !.pc = "returned", !.err = TRUE]]
        /\ UNCHANGED <<cupsPrinters, lastFailed, retryDue, lastDiffs>>
     \/ \E local \in lists :
          LET diffs == DiffPrinters(local, GetAll(gcpPrintersByGCPID))
          IN  /\ sync' = [sync EXCEPT ![o] =
                            IF diffs = {}
                            THEN [IdleSync EXCEPT !.pc = "returned"]
                            ELSE [IdleSync EXCEPT !.pc = "apply", !.diffs = diffs,
                                                  !.pending = diffs]]
              /\ retryDue' = IF local = cupsPrinters THEN lastFailed ELSE {}
              /\ lastFailed' = {}
              /\ cupsPrinters' = local
              /\ lastDiffs' = diffs
  /\ UNCHANGED <<cloudList, cloudQueued, nextGCPID, ctorPc, pmVars, loopVars,
                 intakeVars, procs>>

DiffKey(d) ==
  [Operation |-> d.Operation, Name |-> d.Printer.Name, GCPID |-> d.Printer.GCPID]

\* ch <- p, and the bookkeeping of a failed cloud operation
Deliver(o, d, p, failed) ==
  /\ sync' = [sync EXCEPT ![o].pending = @ \ {d}, ![o].ch = Append(@, p)]
  /\ lastFailed' = IF failed THEN lastFailed \cup {DiffKey(d)} ELSE lastFailed

(***************************************************************************)
(* applyDiff, lines 201-258: one goroutine per diff.                       *)
(***************************************************************************)
ApplyRegister(o, d) ==
  \/ \* GetPPD or gcp.Register fails: break, then line 257
     /\ Deliver(o, d, EmptyPrinter, TRUE)
     /\ UNCHANGED <<nextGCPID, sems>>
  \/ \* registered (Share may fail, which is only logged): a fresh semaphore
     /\ nextGCPID - Len(cloudList) <= MaxRegistered
     /\ Deliver(o, d, [d.Printer EXCEPT !.GCPID = nextGCPID,
                                        !.CUPSJobSemaphore = Len(sems) + 1], FALSE)
     /\ nextGCPID' = nextGCPID + 1
     /\ sems' = Append(sems, 0)

ApplyUpdate(o, d) ==
  \* line 240 sends diff.Printer whether gcp.Update failed or not
  /\ \E failed \in BOOLEAN : Deliver(o, d, d.Printer, failed)
  /\ UNCHANGED <<nextGCPID, sems>>

\* a Delete worker that returns without a result when gcp.Delete fails
ApplyDelete_NoResultOnFailure(o, d) ==
  /\ \/ Deliver(o, d, EmptyPrinter, FALSE)
     \/ /\ sync' = [sync EXCEPT ![o].pending = @ \ {d}]
        /\ lastFailed' = lastFailed \cup {DiffKey(d)}
  /\ UNCHANGED <<nextGCPID, sems>>

ApplyDelete(o, d) ==
  \* success falls out of the switch, failure breaks: both reach line 257
  /\ \E failed \in BOOLEAN : Deliver(o, d, EmptyPrinter, failed)
  /\ UNCHANGED <<nextGCPID, sems>>

ApplyNoChange(o, d) ==
  /\ Deliver(o, d, d.Printer, FALSE)
  /\ UNCHANGED <<nextGCPID, sems>>

applyDiff(o) ==
  /\ sync[o].pc = "apply"
  /\ \E d \in sync[o].pending :
       CASE d.Operation = "RegisterPrinter" -> ApplyRegister(o, d)
         [] d.Operation = "UpdatePrinter" -> ApplyUpdate(o, d)
         [] d.Operation = "DeletePrinter" -> ApplyDelete(o, d)
         [] OTHER -> ApplyNoChange(o, d)
  /\ UNCHANGED <<cloudList, cloudQueued, cupsPrinters, ctorPc,
                 gcpPrintersByGCPID, connectorPing, downloadSemaphore,
                 jobsInFlight, jobsDone, jobsError, retryDue, lastDiffs, loopVars, intakeVars, procs>>

\* p := <-ch, lines 188-193
SyncPrinters_Receive(o) ==
  /\ sync[o].pc = "apply"
  /\ sync[o].got < Cardinality(sync[o].diffs)
  /\ sync[o].ch # <<>>
  /\ LET p == Head(sync[o].ch)
     IN  sync' = [sync EXCEPT ![o].ch = Tail(@), ![o].got = @ + 1,
                              ![o].current = IF p.Name # "" THEN Append(@, p) ELSE @]
  /\ UNCHANGED <<envVars, ctorPc, pmVars, lastFailed, retryDue, lastDiffs, loopVars, intakeVars, procs>>

\* Refresh and return, lines 195-198
SyncPrinters_Refresh(o) ==
  /\ sync[o].pc = "apply"
  /\ sync[o].got = Cardinality(sync[o].diffs)
  /\ gcpPrintersByGCPID' = NewConcurrentPrinterMap(sync[o].current)
  /\ sync' = [sync EXCEPT ![o].pc = "returned"]
  /\ UNCHANGED <<envVars, ctorPc, connectorPing, sems, downloadSemaphore,
                 jobsInFlight, jobsDone, jobsError, lastFailed, retryDue,
                 lastDiffs, loopVars, intakeVars, procs>>

(***************************************************************************)
(* NewPrinterManager, lines 111-121: the synchronous round has returned;   *)
(* parse the poll interval and launch the periodic loop, then enter        *)
(* listenGCPJobs.                                                          *)
(***************************************************************************)
\* a constructor that launches the periodic loop before it tests its errors
NewPrinterManager_Start_LaunchFirst ==
  /\ ctorPc = "sync"
  /\ sync["ctor"].pc = "returned"
  /\ sync' = [sync EXCEPT !["ctor"] = IdleSync]
  /\ loopPc' = "select"
  /\ timer' = "armed"
  /\ \/ /\ ctorPc' = "failed"
        /\ UNCHANGED spawnLeft
     \/ /\ ~sync["ctor"].err
        /\ ctorPc' = "listenJobs"
        /\ spawnLeft' = cloudQueued
  /\ UNCHANGED <<envVars, pmVars, lastFailed, retryDue, lastDiffs,
                 rounds, quitPc, listener, updates, pingHandled,
                 gcpID, fetchers, pushBatch, dispatcher, procs>>

NewPrinterManager_Start ==
  /\ ctorPc = "sync"
  /\ sync["ctor"].pc = "returned"
  /\ sync' = [sync EXCEPT !["ctor"] = IdleSync]
  /\ \/ \* the round failed, or time.ParseDuration fails
        /\ ctorPc' = "failed"
        /\ UNCHANGED <<loopPc, timer, spawnLeft>>
     \/ /\ ~sync["ctor"].err
        /\ ctorPc' = "listenJobs"
        /\ loopPc' = "select"
        /\ timer' = "armed"
        /\ spawnLeft' = cloudQueued
  /\ UNCHANGED <<envVars, pmVars, lastFailed, retryDue, lastDiffs,
                 rounds, quitPc, listener, updates, pingHandled,
                 gcpID, fetchers, pushBatch, dispatcher, procs>>

(***************************************************************************)
(* syncPrintersPeriodically, lines 133-164.                                *)
(***************************************************************************)
\* case <-t.C: the timer expires and the loop calls syncPrinters
Loop_Tick ==
  /\ loopPc = "select"
  /\ timer = "armed"
  /\ rounds < MaxRounds
  /\ timer' = "expired"
  /\ rounds' = rounds + 1
  /\ loopPc' = "sync"
  /\ sync' = [sync EXCEPT !["loop"] = [IdleSync EXCEPT !.pc = "start"]]
  /\ UNCHANGED <<envVars, ctorPc, pmVars, lastFailed, retryDue, lastDiffs, quitPc, listener, updates, pingHandled,
                 intakeVars, procs>>

\* syncPrinters returned (an error is only logged); t.Reset(interval)
Loop_Reset ==
  /\ loopPc = "sync"
  /\ sync["loop"].pc = "returned"
  /\ sync' = [sync EXCEPT !["loop"] = IdleSync]
  /\ timer' = "armed"
  /\ loopPc' = "select"
  /\ UNCHANGED <<envVars, ctorPc, pmVars, lastFailed, retryDue, lastDiffs, rounds, quitPc, listener, updates, pingHandled,
                 intakeVars, procs>>

\* case gcpID := <-pm.gcpPrinterUpdates: gcp.Printer, SetPrinterXMPPPingInterval;
\* either may fail, and no field of the manager changes in any case
Loop_PrinterUpdate ==
  /\ loopPc = "select"
  /\ listener > 0
  /\ listener' = 0
  /\ pingHandled' = pingHandled + 1
  /\ UNCHANGED <<envVars, ctorPc, pmVars, syncVars, loopPc, timer, rounds,
                 quitPc, updates, intakeVars, procs>>

\* case <-pm.printerPollQuit: Quit's send is received
Loop_Quit ==
  /\ loopPc = "select"
  /\ quitPc = "sending"
  /\ quitPc' = "waiting"
  /\ loopPc' = "quitAck"
  /\ UNCHANGED <<envVars, ctorPc, pmVars, syncVars, timer, rounds, listener,
                 updates, pingHandled, intakeVars, procs>>

\* pm.printerPollQuit <- true, received by Quit, which returns; then break,
\* which leaves the select statement and not the for loop
Loop_QuitAck ==
  /\ loopPc = "quitAck"
  /\ quitPc = "waiting"
  /\ quitPc' = "returned"
  /\ loopPc' = "select"
  /\ UNCHANGED <<envVars, ctorPc, pmVars, syncVars, timer, rounds, listener,
                 updates, pingHandled, intakeVars, procs>>

\* Quit, lines 128-131: called on a constructed manager
Quit ==
  /\ ctorPc = "returned"
  /\ quitPc = "idle"
  /\ quitPc' = "sending"
  /\ UNCHANGED <<envVars, ctorPc, pmVars, syncVars, loopPc, timer, rounds,
                 listener, updates, pingHandled, intakeVars, procs>>

\* listenGCPPrinterUpdates, lines 307-314: NextPrinterWithUpdates returns an id
Listener_Next ==
  /\ listener = 0
  /\ updates < MaxUpdates
  /\ updates' = updates + 1
  /\ \E id \in 1..(nextGCPID - 1) : listener' = id
  /\ UNCHANGED <<envVars, ctorPc, pmVars, syncVars, loopPc, timer, rounds,
                 quitPc, pingHandled, intakeVars, procs>>

(***************************************************************************)
(* listenGCPJobs, lines 260-305.  The range loop runs in the constructor;  *)
(* every fetcher closure reads the one loop variable gcpID when it calls   *)
(* Fetch.  A job is a record of its GCPJobID and GCPPrinterID.             *)
(***************************************************************************)
\* the printer a job belongs to is the same at every delivery of the job
KnownPrinters(j) == {procs[p].printerID : p \in {q \in DOMAIN procs : procs[q].job = j}}

PrinterChoices(j) ==
  IF KnownPrinters(j) # {} THEN KnownPrinters(j) ELSE 1..(nextGCPID - 1)

\* batches of at most MaxBatch jobs; with printer 0, of any printers
Batches(printer) ==
  UNION {[1..n -> {job \in [GCPJobID : JobIds, GCPPrinterID : 1..(nextGCPID - 1)] :
                     /\ job.GCPPrinterID \in PrinterChoices(job.GCPJobID)
                     /\ printer # 0 => job.GCPPrinterID = printer}] :
           n \in 0..MaxBatch}

\* one iteration of "for gcpID := range queuedJobsCount": go func() {...}()
ListenGCPJobs_Spawn ==
  /\ ctorPc = "listenJobs"
  /\ \E id \in spawnLeft :
       /\ gcpID' = id
       /\ spawnLeft' = spawnLeft \ {id}
       /\ fetchers' = [k \in DOMAIN fetchers \cup {id} |->
                         IF k = id THEN [pc |-> "spawned", fetched |-> 0, jobs |-> <<>>]
                         ELSE fetchers[k]]
  /\ UNCHANGED <<envVars, ctorPc, pmVars, syncVars, loopVars, pushBatch,
                 dispatcher, procs>>

\* lines 280-304, 123, 125: the push producer, the dispatcher and the
\* printer-update listener are launched and the constructor returns
NewPrinterManager_Finish ==
  /\ ctorPc = "listenJobs"
  /\ spawnLeft = {}
  /\ dispatcher' = "running"
  /\ listener' = 0
  /\ ctorPc' = "returned"
  /\ UNCHANGED <<envVars, pmVars, syncVars, loopPc, timer, rounds, quitPc,
                 updates, pingHandled, spawnLeft, gcpID, fetchers, pushBatch, procs>>

\* line 265: pm.gcp.Fetch(gcpID), with the loop variable's current value
FetchArgument(k) == gcpID

Fetcher_Fetch(k) ==
  /\ k \in DOMAIN fetchers
  /\ fetchers[k].pc = "spawned"
  /\ LET id == FetchArgument(k)
     IN  \/ \* Fetch fails: the fetcher returns
            fetchers' = [fetchers EXCEPT ![k] = [pc |-> "exited", fetched |-> id,
                                                 jobs |-> <<>>]]
         \/ \E jobs \in Batches(id) :
              fetchers' = [fetchers EXCEPT ![k] =
                             [pc |-> IF jobs = <<>> THEN "exited" ELSE "sending",
                              fetched |-> id, jobs |-> jobs]]
  /\ UNCHANGED <<envVars, ctorPc, pmVars, syncVars, loopVars, spawnLeft, gcpID,
                 pushBatch, dispatcher, procs>>

\* the dispatcher's "case job := <-ch: go pm.processJob(job)"
Spawn(job) ==
  /\ dispatcher = "running"
  /\ \E p \in DOMAIN procs :
       /\ procs[p].pc = "idle"
       /\ \A q \in DOMAIN procs : q < p => procs[q].pc # "idle"
       /\ procs' = [procs EXCEPT ![p] = [IdleProc EXCEPT !.pc = "start",
                                           !.job = job.GCPJobID,
                                           !.printerID = job.GCPPrinterID]]

\* ch <- &jobs[i] of a fetcher meets the dispatcher's receive
Fetcher_Send(k) ==
  /\ k \in DOMAIN fetchers
  /\ fetchers[k].pc = "sending"
  /\ Spawn(Head(fetchers[k].jobs))
  /\ fetchers' = [fetchers EXCEPT ![k].jobs = Tail(@),
                                  ![k].pc = IF Len(fetchers[k].jobs) = 1
                                            THEN "exited" ELSE "sending"]
  /\ UNCHANGED <<envVars, ctorPc, pmVars, syncVars, loopVars, spawnLeft, gcpID,
                 pushBatch, dispatcher>>

\* the push producer: NextJobBatch returns a batch (an error is logged and
\* the call is made again)
Push_NextJobBatch ==
  /\ dispatcher = "running"
  /\ pushBatch = <<>>
  /\ \E p \in DOMAIN procs : procs[p].pc = "idle"
  /\ \E jobs \in Batches(0) : jobs # <<>> /\ pushBatch' = jobs
  /\ UNCHANGED <<envVars, ctorPc, pmVars, syncVars, loopVars, spawnLeft, gcpID,
                 fetchers, dispatcher, procs>>

\* ch <- &jobs[i] of the push producer meets the dispatcher's receive
Push_Send ==
  /\ pushBatch # <<>>
  /\ Spawn(Head(pushBatch))
  /\ pushBatch' = Tail(pushBatch)
  /\ UNCHANGED <<envVars, ctorPc, pmVars, syncVars, loopVars, spawnLeft, gcpID,
                 fetchers, dispatcher>>

(***************************************************************************)
(* lib.CUPSJobState and its GCPJobState(): the states a poll can report    *)
(* and the cloud state and cause each maps to ("Held" maps as "Processing" *)
(* does, "Canceled" and "Stopped" as "Aborted" does, with other causes).   *)
(* ZeroCUPSJobState and ZeroGCPJobState are the values of followJob's      *)
(* uninitialized locals.                                                   *)
(***************************************************************************)
CUPSJobStates == {"Pending", "Processing", "Aborted", "Completed"}
ZeroCUPSJobState == "Pending"
ZeroGCPJobState == "Queued"

GCPJobState(cupsState) ==
  CASE cupsState \in {"Pending", "Processing"} -> <<"InProgress", "None">>
    [] cupsState = "Completed" -> <<"Done", "None">>
    [] OTHER -> <<"Aborted", "PrintFailure">>

\* lib.Semaphore: Acquire blocks while every permit is held
CanAcquire(count, capacity) == count < capacity

\* pm.gcp.Control(job, state, cause, pages), recorded in the caller's history
Control(proc, state, cause, pages) ==
  [proc EXCEPT !.controls = @ + 1,
               !.aborted = IF state = "Aborted" THEN @ + 1 ELSE @,
               !.last = <<state, cause, pages>>]

\* incrementJobsProcessed, lines 316-325, under jobsStatsMutex
incrementJobsProcessed(success) ==
  /\ jobsDone' = IF success THEN jobsDone + 1 ELSE jobsDone
  /\ jobsError' = IF success THEN jobsError ELSE jobsError + 1

otherVars == <<envVars, ctorPc, syncVars, loopVars, intakeVars>>

(***************************************************************************)
(* processJob, lines 408-457, with assembleJob and followJob.              *)
(***************************************************************************)
\* an addInFlightJob that adds without looking
addInFlightJob_NoCheck(gcpJobID) == TRUE

\* addInFlightJob, lines 330-341, under jobsInFlightMutex
addInFlightJob(gcpJobID) == gcpJobID \notin jobsInFlight

\* a processJob that defers deleteInFlightJob before it tests the result
ProcessJob_AddInFlight_DeferFirst(p) ==
  /\ procs[p].pc = "start"
  /\ IF addInFlightJob(procs[p].job)
     THEN /\ jobsInFlight' = jobsInFlight \cup {procs[p].job}
          /\ procs' = [procs EXCEPT ![p].pc = "assemble"]
     ELSE /\ procs' = [procs EXCEPT ![p].pc = "discarded"]
          /\ jobsInFlight' = jobsInFlight \ {procs[p].job}
  /\ UNCHANGED <<otherVars, gcpPrintersByGCPID, connectorPing, sems,
                 downloadSemaphore, jobsDone, jobsError>>

ProcessJob_AddInFlight(p) ==
  /\ procs[p].pc = "start"
  /\ IF addInFlightJob(procs[p].job)
     THEN /\ jobsInFlight' = jobsInFlight \cup {procs[p].job}
          /\ procs' = [procs EXCEPT ![p].pc = "assemble"]
     ELSE /\ procs' = [procs EXCEPT ![p].pc = "discarded"]
          /\ UNCHANGED jobsInFlight
  /\ UNCHANGED <<otherVars, gcpPrintersByGCPID, connectorPing, sems,
                 downloadSemaphore, jobsDone, jobsError>>

\* an assembleJob that reports every failure with the cause Other
AssembleFailed_CauseOther(p, failure, cause) ==
  procs' = [procs EXCEPT ![p].pc = "abort", ![p].failure = failure,
                         ![p].cause = "Other"]

\* assembleJob returns a message and a cause
AssembleFailed(p, failure, cause) ==
  procs' = [procs EXCEPT ![p].pc = "abort", ![p].failure = failure,
                         ![p].cause = cause]

\* assembleJob, lines 359-378: the printer, the ticket, the temp file
AssembleJob_Prepare(p) ==
  /\ procs[p].pc = "assemble"
  /\ \/ /\ procs[p].printerID \notin DOMAIN gcpPrintersByGCPID
        /\ AssembleFailed(p, "printer", "Other")
     \/ /\ procs[p].printerID \in DOMAIN gcpPrintersByGCPID
        /\ \/ AssembleFailed(p, "ticket", "InvalidTicket")
           \/ AssembleFailed(p, "tempFile", "Other")
           \/ procs' = [procs EXCEPT ![p].pc = "acquireDownload",
                                     ![p].printer = gcpPrintersByGCPID[procs[p].printerID],
                                     ![p].file = "exists"]
  /\ UNCHANGED <<otherVars, pmVars>>

\* line 380: pm.downloadSemaphore.Acquire()
AssembleJob_Acquire(p) ==
  /\ procs[p].pc = "acquireDownload"
  /\ CanAcquire(downloadSemaphore, MaxConcurrentDownload)
  /\ downloadSemaphore' = downloadSemaphore + 1
  /\ procs' = [procs EXCEPT ![p].pc = "download"]
  /\ UNCHANGED <<otherVars, gcpPrintersByGCPID, connectorPing, sems,
                 jobsInFlight, jobsDone, jobsError>>

\* a download failure path that leaves the temp file to the caller
DownloadFailed_KeepFile(p) ==
  procs' = [procs EXCEPT ![p].pc = "abort", ![p].failure = "download",
                         ![p].cause = "PrintFailure",
                         ![p].printer = EmptyPrinter]

\* lines 386-392: the download failed; the temp file is removed
DownloadFailed(p) ==
  procs' = [procs EXCEPT ![p].pc = "abort", ![p].failure = "download",
                         ![p].cause = "PrintFailure", ![p].file = "deleted",
                         ![p].printer = EmptyPrinter]

\* an assembleJob that returns on a download error before the Release
AssembleJob_Download_LeakOnError(p) ==
  /\ procs[p].pc = "download"
  /\ \/ /\ DownloadFailed(p)
        /\ UNCHANGED downloadSemaphore
     \/ /\ procs' = [procs EXCEPT ![p].pc = "acquireSubmit"]
        /\ downloadSemaphore' = downloadSemaphore - 1
  /\ UNCHANGED <<otherVars, gcpPrintersByGCPID, connectorPing, sems,
                 jobsInFlight, jobsDone, jobsError>>

\* lines 383-397: Download returns and the permit is released
AssembleJob_Download(p) ==
  /\ procs[p].pc = "download"
  /\ downloadSemaphore' = downloadSemaphore - 1
  /\ \/ DownloadFailed(p)
     \/ procs' = [procs EXCEPT ![p].pc = "acquireSubmit"]
  /\ UNCHANGED <<otherVars, gcpPrintersByGCPID, connectorPing, sems,
                 jobsInFlight, jobsDone, jobsError>>

\* lines 420-427: assembleJob returned a message
ProcessJob_Abort(p) ==
  /\ procs[p].pc = "abort"
  /\ incrementJobsProcessed(FALSE)
  /\ procs' = [procs EXCEPT ![p] =
                 [Control(procs[p], "Aborted", procs[p].cause, 0) EXCEPT
                    !.pc = "deleteInFlight", !.cause = "", !.counted = "error"]]
  /\ UNCHANGED <<otherVars, gcpPrintersByGCPID, connectorPing, sems,
                 downloadSemaphore, jobsInFlight>>

\* line 435: printer.CUPSJobSemaphore.Acquire(), on the semaphore of the
\* printer record that assembleJob returned
ProcessJob_AcquireSubmit(p) ==
  /\ procs[p].pc = "acquireSubmit"
  /\ CanAcquire(sems[procs[p].printer.CUPSJobSemaphore], CUPSQueueSize)
  /\ sems' = [sems EXCEPT ![procs[p].printer.CUPSJobSemaphore] = @ + 1]
  /\ procs' = [procs EXCEPT ![p].pc = "print"]
  /\ UNCHANGED <<otherVars, gcpPrintersByGCPID, connectorPing,
                 downloadSemaphore, jobsInFlight, jobsDone, jobsError>>

\* lines 443-456: cups.Print; on success followJob starts with zero locals
\* a processJob that releases the submit permit once Print has returned
ProcessJob_Print_ReleaseEarly(p) ==
  /\ procs[p].pc = "print"
  /\ \/ /\ procs' = [procs EXCEPT ![p].pc = "follow", ![p].prints = @ + 1,
                                  ![p].cupsState = ZeroCUPSJobState,
                                  ![p].gcpState = ZeroGCPJobState,
                                  ![p].pages = 0]
        /\ sems' = [sems EXCEPT ![procs[p].printer.CUPSJobSemaphore] = @ - 1]
        /\ UNCHANGED <<jobsDone, jobsError>>
     \/ /\ incrementJobsProcessed(FALSE)
        /\ procs' = [procs EXCEPT ![p] =
                       [Control(procs[p], "Aborted", "PrintFailure", 0) EXCEPT
                          !.pc = "cleanup", !.prints = @ + 1, !.failure = "print",
                          !.counted = "error"]]
        /\ UNCHANGED sems
  /\ UNCHANGED <<otherVars, gcpPrintersByGCPID, connectorPing,
                 downloadSemaphore, jobsInFlight>>

ProcessJob_Print(p) ==
  /\ procs[p].pc = "print"
  /\ \/ /\ procs' = [procs EXCEPT ![p].pc = "follow", ![p].prints = @ + 1,
                                  ![p].cupsState = ZeroCUPSJobState,
                                  ![p].gcpState = ZeroGCPJobState,
                                  ![p].pages = 0]
        /\ UNCHANGED <<jobsDone, jobsError>>
     \/ /\ incrementJobsProcessed(FALSE)
        /\ procs' = [procs EXCEPT ![p] =
                       [Control(procs[p], "Aborted", "PrintFailure", 0) EXCEPT
                          !.pc = "cleanup", !.prints = @ + 1, !.failure = "print",
                          !.counted = "error"]]
  /\ UNCHANGED <<otherVars, gcpPrintersByGCPID, connectorPing, sems,
                 downloadSemaphore, jobsInFlight>>

\* followJob returns: its locals are gone
FollowExit(proc, counted) ==
  [proc EXCEPT !.pc = "cleanup", !.counted = counted, !.cupsState = "",
               !.gcpState = "", !.pages = 0]

\* a followJob that leaves the counters alone when GetJobState fails
FollowJob_PollFailed_NoCount(p) ==
  /\ UNCHANGED <<jobsDone, jobsError>>
  /\ procs' = [procs EXCEPT ![p] =
                 [FollowExit(Control(procs[p], "Aborted", "Other", procs[p].pages),
                             "error") EXCEPT !.polls = @ + 1, !.failure = "poll"]]

\* lines 474-481: GetJobState failed
FollowJob_PollFailed(p) ==
  /\ incrementJobsProcessed(FALSE)
  /\ procs' = [procs EXCEPT ![p] =
                 [FollowExit(Control(procs[p], "Aborted", "Other", procs[p].pages),
                             "error") EXCEPT !.polls = @ + 1, !.failure = "poll"]]

\* line 483: is a Control update due?
Changed(proc, latestCUPSState, latestPages) ==
  latestCUPSState # proc.cupsState \/ latestPages # proc.pages

\* lines 483-501: GetJobState returned a state and a page count
FollowJob_Polled(p, latestCUPSState, latestPages) ==
  LET proc == procs[p]
      changed == Changed(proc, latestCUPSState, latestPages)
      mapped == GCPJobState(latestCUPSState)
      gcpState == IF changed THEN mapped[1] ELSE proc.gcpState
      upd == IF changed
             THEN [Control(proc, mapped[1], mapped[2], latestPages) EXCEPT
                     !.cupsState = latestCUPSState, !.gcpState = mapped[1],
                     !.pages = latestPages]
             ELSE proc
  IN  IF gcpState # "InProgress"
      THEN /\ incrementJobsProcessed(gcpState = "Done")
           /\ procs' = [procs EXCEPT ![p] =
                          [FollowExit(upd, IF gcpState = "Done" THEN "done" ELSE "error")
                             EXCEPT !.polls = @ + 1]]
      ELSE /\ procs' = [procs EXCEPT ![p] = [upd EXCEPT !.polls = @ + 1]]
           /\ UNCHANGED <<jobsDone, jobsError>>

\* followJob, lines 472-502: one pass of the ticker loop; states are the
\* local states the spooler can report
FollowJob_Poll(p, states) ==
  /\ procs[p].pc = "follow"
  /\ procs[p].polls < MaxPolls
  /\ \/ FollowJob_PollFailed(p)
     \/ \E st \in states, pg \in 0..MaxPages : FollowJob_Polled(p, st, pg)
  /\ UNCHANGED <<otherVars, gcpPrintersByGCPID, connectorPing, sems,
                 downloadSemaphore, jobsInFlight>>

\* a processJob that returns without releasing the submit permit
ProcessJob_Cleanup_NoRelease(p) ==
  /\ procs[p].pc = "cleanup"
  /\ procs' = [procs EXCEPT ![p].pc = "deleteInFlight", ![p].file = "deleted",
                            ![p].printer = EmptyPrinter]
  /\ UNCHANGED <<otherVars, gcpPrintersByGCPID, connectorPing, sems,
                 downloadSemaphore, jobsInFlight, jobsDone, jobsError>>

\* the deferred calls of lines 436 and 428, in that order
ProcessJob_Cleanup(p) ==
  /\ procs[p].pc = "cleanup"
  /\ sems' = [sems EXCEPT ![procs[p].printer.CUPSJobSemaphore] = @ - 1]
  /\ procs' = [procs EXCEPT ![p].pc = "deleteInFlight", ![p].file = "deleted",
                            ![p].printer = EmptyPrinter]
  /\ UNCHANGED <<otherVars, gcpPrintersByGCPID, connectorPing,
                 downloadSemaphore, jobsInFlight, jobsDone, jobsError>>

\* the deferred deleteInFlightJob of line 415; processJob has returned
ProcessJob_DeleteInFlight(p) ==
  /\ procs[p].pc = "deleteInFlight"
  /\ jobsInFlight' = jobsInFlight \ {procs[p].job}
  /\ procs' = [procs EXCEPT ![p].pc = "done"]
  /\ UNCHANGED <<otherVars, gcpPrintersByGCPID, connectorPing, sems,
                 downloadSemaphore, jobsDone, jobsError>>

(***************************************************************************)
(* GetJobStats, lines 507-518: processing is the sum of the semaphore      *)
(* counts of the printers in the table.                                    *)
(***************************************************************************)
RECURSIVE SumOfCounts(_)
SumOfCounts(printers) ==
  IF printers = {} THEN 0
  ELSE LET printer == CHOOSE q \in printers : TRUE
       IN  sems[printer.CUPSJobSemaphore] + SumOfCounts(printers \ {printer})

GetJobStats ==
  <<jobsDone, jobsError, SumOfCounts(GetAll(gcpPrintersByGCPID))>>

(***************************************************************************)
(* Specifications.                                                         *)
(***************************************************************************)
Constructor ==
  \/ NewPrinterManager_List
  \/ NewPrinterManager_Start
  \/ NewPrinterManager_Finish

\* syncPrinters rounds whose GetPrinters returns one of lists
Round(lists) ==
  \/ \E o \in SyncOwners : SyncPrinters_Start(o, lists)
  \/ \E o \in SyncOwners : applyDiff(o)
  \/ \E o \in SyncOwners : SyncPrinters_Receive(o)
  \/ \E o \in SyncOwners : SyncPrinters_Refresh(o)

Ticks ==
  \/ Loop_Tick
  \/ Loop_Reset

Lifecycle ==
  \/ Loop_PrinterUpdate
  \/ Loop_Quit
  \/ Loop_QuitAck
  \/ Quit
  \/ Listener_Next

Backlog ==
  \/ ListenGCPJobs_Spawn
  \/ \E k \in 1..MaxListed : Fetcher_Fetch(k)
  \/ \E k \in 1..MaxListed : Fetcher_Send(k)

Push ==
  \/ Push_NextJobBatch
  \/ Push_Send

\* processJob goroutines whose polls report one of states
Processors(states) ==
  \/ \E p \in 1..MaxProcs : ProcessJob_AddInFlight(p)
  \/ \E p \in 1..MaxProcs : AssembleJob_Prepare(p)
  \/ \E p \in 1..MaxProcs : AssembleJob_Acquire(p)
  \/ \E p \in 1..MaxProcs : AssembleJob_Download(p)
  \/ \E p \in 1..MaxProcs : ProcessJob_Abort(p)
  \/ \E p \in 1..MaxProcs : ProcessJob_AcquireSubmit(p)
  \/ \E p \in 1..MaxProcs : ProcessJob_Print(p)
  \/ \E p \in 1..MaxProcs : FollowJob_Poll(p, states)
  \/ \E p \in 1..MaxProcs : ProcessJob_Cleanup(p)
  \/ \E p \in 1..MaxProcs : ProcessJob_DeleteInFlight(p)

\* the whole manager
Next ==
  \/ Constructor
  \/ Round(CupsLists)
  \/ Ticks
  \/ Lifecycle
  \/ Backlog
  \/ Push
  \/ Processors(CUPSJobStates)

Spec == Init /\ [][Next]_vars

\* reconciliation alone: the constructor's round and the periodic rounds
InitSync ==
  /\ cloudList \in ListResults
  /\ cloudQueued = {}
  /\ InitCommon

NextSync == Constructor \/ Round(CupsLists) \/ Ticks

SpecSync == InitSync /\ [][NextSync]_vars

\* a cloud that lists one printer, "A", and queues no job
InitOnePrinter ==
  /\ cloudList = <<[Name |-> "A", XMPPPingInterval |-> 1]>>
  /\ cloudQueued = {}
  /\ InitCommon

\* the periodic loop with Quit and the printer-update listener
NextLifecycle == Constructor \/ Round(CupsLists) \/ Ticks \/ Lifecycle

SpecLifecycle == InitOnePrinter /\ [][NextLifecycle]_vars

\* local lists with printer "A" only: present with either attributes, or absent
OnlyA == {l \in CupsLists : l["B"] = 0}

\* a cloud that lists one printer, "A", with queued jobs
InitQueued ==
  /\ cloudList = <<[Name |-> "A", XMPPPingInterval |-> 1]>>
  /\ cloudQueued = {1}
  /\ InitCommon

\* the job pipeline on the table the constructor's round leaves: jobs from
\* the backlog fetcher and from the push producer
NextPipeline ==
  \/ Constructor
  \/ Round(OnlyA)
  \/ Backlog
  \/ Push
  \/ Processors(CUPSJobStates)

SpecPipeline == InitQueued /\ [][NextPipeline]_vars

\* the job pipeline under periodic reconciliation, for a spooler whose jobs
\* are processing or completed
NextJobs ==
  \/ Constructor
  \/ Round(OnlyA)
  \/ Ticks
  \/ Push
  \/ Processors({"Processing", "Completed"})

SpecJobs == InitOnePrinter /\ [][NextJobs]_vars

\* the local states that map to a terminal cloud state
TerminalCUPSJobStates == {st \in CUPSJobStates : GCPJobState(st)[1] # "InProgress"}

\* a poll of a spooler whose jobs report a terminal state by their last
\* poll of the model
FollowJob_PollToEnd(p) ==
  IF procs[p].polls < MaxPolls - 1
  THEN FollowJob_Poll(p, CUPSJobStates)
  ELSE FollowJob_Poll(p, TerminalCUPSJobStates)

\* the job pipeline when every adapter call returns, every goroutine is
\* scheduled and every submitted job reports a terminal state in the end
NextQuiesce ==
  \/ Constructor
  \/ Round(OnlyA)
  \/ Backlog
  \/ Push
  \/ \E p \in 1..MaxProcs : ProcessJob_AddInFlight(p)
  \/ \E p \in 1..MaxProcs : AssembleJob_Prepare(p)
  \/ \E p \in 1..MaxProcs : AssembleJob_Acquire(p)
  \/ \E p \in 1..MaxProcs : AssembleJob_Download(p)
  \/ \E p \in 1..MaxProcs : ProcessJob_Abort(p)
  \/ \E p \in 1..MaxProcs : ProcessJob_AcquireSubmit(p)
  \/ \E p \in 1..MaxProcs : ProcessJob_Print(p)
  \/ \E p \in 1..MaxProcs : FollowJob_PollToEnd(p)
  \/ \E p \in 1..MaxProcs : ProcessJob_Cleanup(p)
  \/ \E p \in 1..MaxProcs : ProcessJob_DeleteInFlight(p)

FairProcessors ==
  \A p \in 1..MaxProcs :
    /\ WF_vars(ProcessJob_AddInFlight(p))
    /\ WF_vars(AssembleJob_Prepare(p))
    /\ WF_vars(AssembleJob_Acquire(p))
    /\ WF_vars(AssembleJob_Download(p))
    /\ WF_vars(ProcessJob_Abort(p))
    /\ WF_vars(ProcessJob_AcquireSubmit(p))
    /\ WF_vars(ProcessJob_Print(p))
    /\ WF_vars(FollowJob_PollToEnd(p))
    /\ WF_vars(ProcessJob_Cleanup(p))
    /\ WF_vars(ProcessJob_DeleteInFlight(p))

SpecQuiesce == InitQueued /\ [][NextQuiesce]_vars /\ FairProcessors

\* the start-up backlog: the fetchers of listenGCPJobs and their deliveries
InitBacklog ==
  /\ cloudList \in {l \in ListResults : \A i \in DOMAIN l : l[i].XMPPPingInterval = 1}
  /\ cloudQueued \in SUBSET (1..Len(cloudList))
  /\ InitCommon

NextBacklog == Constructor \/ Round(CupsLists) \/ Backlog

SpecBacklog == InitBacklog /\ [][NextBacklog]_vars

(***************************************************************************)
(* Claims.                                                                 *)
(***************************************************************************)
Executing(o) == sync[o].pc \in {"start", "apply"}

\* C5: after Quit() has returned, the reconciliation loop runs no further
\* round on a tick and handles no further printer-update event.
C5_LoopStopsAfterQuit ==
  [][quitPc = "returned" => (rounds' = rounds /\ pingHandled' = pingHandled)]_vars

\* C6: once the constructor has returned, the connector's ping interval
\* last set on the cloud adapter is the minimum XMPPPingInterval over the
\* printers in the table (math.MaxInt64 for an empty table).
C6_ConnectorPingIsMinimum ==
  ctorPc = "returned" =>
    connectorPing = MinXMPPPingInterval(GetAll(gcpPrintersByGCPID))

\* C7: no two syncPrinters rounds execute at once: the periodic loop is not
\* running while the constructor's round executes, the timer is not armed
\* while a tick's round executes, and a printer update is handled only when
\* no round executes.
C7_RoundsSerialized ==
  /\ [](/\ Cardinality({o \in SyncOwners : Executing(o)}) <= 1
        /\ (ctorPc \in {"List", "sync"} => loopPc = "notStarted")
        /\ (Executing("loop") => loopPc = "sync" /\ timer = "expired"))
  /\ [][pingHandled' # pingHandled => \A o \in SyncOwners : ~Executing(o)]_vars

\* C7's case: a tick's round is applying its diffs while a printer update
\* waits to be received
C7_Witness ==
  /\ sync["loop"].pc = "apply"
  /\ sync["loop"].pending # {}
  /\ listener > 0

\* C9: a cloud operation (Register, Update, Delete) that failed in a round
\* is the subject of the same diff in the next round when that round sees
\* the same local printer list.
C9_FailedOperationRetried ==
  \A f \in retryDue : \E d \in lastDiffs : DiffKey(d) = f

\* past the dedupe step and not yet exited
Active(p) ==
  procs[p].pc \in {"assemble", "abort", "acquireDownload", "download",
                   "acquireSubmit", "print", "follow", "cleanup", "deleteInFlight"}

\* C1: at no instant are two processJob activations of the same cloud job
\* both past the dedupe step and not yet exited.
C1_OneActiveProcessorPerJob ==
  \A p, q \in DOMAIN procs :
    (p # q /\ procs[p].job = procs[q].job /\ Active(p)) => ~Active(q)

\* C1's case: a second delivery of a job was discarded while a processor of
\* that job is active
C1_Witness ==
  \E p, q \in DOMAIN procs :
    /\ procs[p].job = procs[q].job
    /\ Active(p)
    /\ procs[q].pc = "discarded"

\* C2: for every printer, the processors between a successful Print to that
\* printer and the exit of followJob number at most CUPSQueueSize.
C2_SubmissionsBounded ==
  \A n \in CupsNames :
    Cardinality({p \in DOMAIN procs :
                   procs[p].pc = "follow" /\ procs[p].printer.Name = n})
      <= CUPSQueueSize

\* C3: at most MaxConcurrentDownload processors execute Download, and the
\* download permits held are exactly those of the processors executing it
\* (the permit is released on success and on failure).
C3_DownloadsBounded ==
  LET downloading == {p \in DOMAIN procs : procs[p].pc = "download"}
  IN  /\ Cardinality(downloading) <= MaxConcurrentDownload
      /\ downloadSemaphore = Cardinality(downloading)

\* C3's case: a processor downloads after another's download has failed
C3_Witness ==
  \E p, q \in DOMAIN procs :
    /\ procs[p].failure = "download"
    /\ procs[q].pc = "download"
    /\ downloadSemaphore = MaxConcurrentDownload

\* C4: a processor that has exited has left no temp file, whichever way it
\* exited.
C4_TempFileDeleted ==
  \A p \in DOMAIN procs : procs[p].pc = "done" => procs[p].file # "exists"

\* C4's case: processors have exited after a download failure and after a
\* poll failure, their temp files deleted
C4_Witness ==
  \E p, q \in DOMAIN procs :
    /\ procs[p].pc = "done" /\ procs[p].failure = "download"
    /\ procs[p].file = "deleted"
    /\ procs[q].pc = "done" /\ procs[q].failure = "poll"
    /\ procs[q].file = "deleted"

\* the cause the claim names for each failure
ClaimedCause(failure) ==
  CASE failure = "printer" -> "Other"
    [] failure = "ticket" -> "InvalidTicket"
    [] failure = "tempFile" -> "Other"
    [] failure = "download" -> "PrintFailure"
    [] failure = "print" -> "PrintFailure"
    [] OTHER -> "Other"

\* C8: a processor that met a failure (printer, ticket, temp file, download,
\* Print, poll) has made exactly one Control call with state Aborted, its
\* last, with the cause named for that failure; and none has called Print
\* after an assemble failure.
C8_FailureAbortsOnce ==
  \A p \in DOMAIN procs :
    /\ (procs[p].failure # "" /\ procs[p].pc # "abort") =>
         /\ procs[p].aborted = 1
         /\ procs[p].last[1] = "Aborted"
         /\ procs[p].last[2] = ClaimedCause(procs[p].failure)
    /\ procs[p].failure \in {"printer", "ticket", "tempFile", "download"} =>
         procs[p].prints = 0

\* C8's case: a processor has exited after a ticket failure and another
\* after a poll failure that followed a reported InProgress state
C8_Witness ==
  \E p, q \in DOMAIN procs :
    /\ procs[p].pc = "done" /\ procs[p].failure = "ticket"
    /\ procs[p].last = <<"Aborted", "InvalidTicket", 0>>
    /\ procs[q].pc = "done" /\ procs[q].failure = "poll"
    /\ procs[q].controls = 2

\* C10: every printer id of the queued-job-count map is the argument of
\* exactly one fetcher's Fetch call.
C10_EachQueuedPrinterFetchedOnce ==
  (/\ DOMAIN fetchers = cloudQueued
   /\ \A k \in DOMAIN fetchers : fetchers[k].pc # "spawned")
  => \A id \in cloudQueued :
       Cardinality({k \in DOMAIN fetchers : fetchers[k].fetched = id}) = 1

\* C11: a constructor that failed (List, SetPrinterXMPPPingInterval, the
\* synchronous round, ParseDuration) has started no background activity:
\* no periodic loop and timer, no fetcher, push producer or dispatcher, no
\* job processor, no printer-update listener.
C11_FailedConstructorStartsNothing ==
  ctorPc = "failed" =>
    /\ loopPc = "notStarted"
    /\ timer = "none"
    /\ rounds = 0
    /\ fetchers = <<>>
    /\ pushBatch = <<>>
    /\ dispatcher = "notStarted"
    /\ listener = -1
    /\ \A p \in DOMAIN procs : procs[p].pc = "idle"
    /\ \A o \in SyncOwners : ~Executing(o)

\* C11's case: the constructor failed after its synchronous round had
\* applied diffs and refreshed the table
C11_Witness ==
  /\ ctorPc = "failed"
  /\ lastDiffs # {}
  /\ gcpPrintersByGCPID # <<>>

\* followJob has run and returned in processor p
FollowExited(p) ==
  /\ procs[p].pc \in {"cleanup", "deleteInFlight", "done"}
  /\ procs[p].prints = 1
  /\ procs[p].failure # "print"

\* C12: when followJob has exited, a Control call with a terminal cloud
\* state (Done or Aborted) has been made for the job, it is the last one,
\* and the counter incremented agrees with it: done iff that state is Done.
C12_FollowExitReportsTerminal ==
  \A p \in DOMAIN procs :
    FollowExited(p) =>
      /\ procs[p].last # <<>>
      /\ procs[p].last[1] \in {"Done", "Aborted"}
      /\ (procs[p].counted = "done" <=> procs[p].last[1] = "Done")
      /\ (procs[p].counted = "error" <=> procs[p].last[1] = "Aborted")


\* C13: a successful poll of followJob that returns the local state st and
\* the page count pg makes a Control call iff st or pg differs from the
\* recorded ones, and followJob goes on polling iff the cloud state st maps
\* to is InProgress.
C13_ControlIffChangedExitIffNotInProgress ==
  [][\A p \in DOMAIN procs : \A st \in CUPSJobStates : \A pg \in 0..MaxPages :
       (procs[p].pc = "follow" /\ FollowJob_Polled(p, st, pg)) =>
         /\ procs'[p].controls - procs[p].controls =
              (IF st # procs[p].cupsState \/ pg # procs[p].pages THEN 1 ELSE 0)
         /\ (procs'[p].pc = "follow") <=> (GCPJobState(st)[1] = "InProgress")]_vars


\* C14: in a round, no printer delivered for the refreshed table (sent by a
\* worker, collected, or refreshed into the table) is the printer of an
\* Update diff whose cloud Update call failed in that round.
C14_FailedUpdateNotEmitted ==
  \A o \in SyncOwners : \A f \in lastFailed :
    (sync[o].pc \in {"apply", "returned"} /\ f.Operation = "UpdatePrinter") =>
      /\ \A i \in DOMAIN sync[o].ch : sync[o].ch[i].GCPID # f.GCPID
      /\ \A i \in DOMAIN sync[o].current : sync[o].current[i].GCPID # f.GCPID


\* the diffs of round o whose worker has delivered a printer (not the
\* empty one): Update and NoChange, and a Register that did not fail
Emitting(o) ==
  {d \in sync[o].diffs \ sync[o].pending :
     \/ d.Operation \in {"UpdatePrinter", "NoChangeToPrinter"}
     \/ d.Operation = "RegisterPrinter" /\ DiffKey(d) \notin lastFailed}

NonEmpty(s) == Cardinality({i \in DOMAIN s : s[i].Name # ""})

\* C15: in a round with diffs, every worker that has finished has delivered
\* exactly one result, within the channel's capacity, whether its cloud
\* operation failed or not; the collector has every result once and keeps
\* the non-empty ones; the round can always take a step; and a round that
\* has returned has received one result per diff and refreshed the table
\* with the non-empty results.
C15_RoundCompletesDespiteFailures ==
  \A o \in SyncOwners :
    LET r == sync[o]
        n == Cardinality(r.diffs)
    IN  /\ r.pc = "apply" =>
             /\ n > 0
             /\ Len(r.ch) + r.got + Cardinality(r.pending) = n
             /\ Len(r.ch) <= n
             /\ NonEmpty(r.ch) + Len(r.current) = Cardinality(Emitting(o))
             /\ NonEmpty(r.current) = Len(r.current)
             /\ (r.pending # {} \/ r.ch # <<>> \/ r.got = n)
        /\ (r.pc = "returned" /\ n > 0) =>
             /\ r.pending = {} /\ r.ch = <<>> /\ r.got = n
             /\ Len(r.current) = Cardinality(Emitting(o))
             /\ gcpPrintersByGCPID = NewConcurrentPrinterMap(r.current)

\* C15's case: a round of two diffs has returned after one of its cloud
\* operations failed and the other delivered a printer
C15_Witness ==
  \E o \in SyncOwners :
    /\ sync[o].pc = "returned"
    /\ Cardinality(sync[o].diffs) = 2
    /\ lastFailed # {}
    /\ Len(sync[o].current) = 1


\* C16: a delivery of a job that is in flight is discarded with no effect:
\* the step that discards it changes no counter, no semaphore and not the
\* in-flight set, which still holds the job; the discarded processor has
\* made no Control and no Print call and has no printer and no temp file;
\* and the processors of a job with a discarded delivery have made at most
\* one Print call together.
C16_DuplicateDeliveryDiscarded ==
  /\ [][\A p \in DOMAIN procs :
          (procs[p].pc = "start" /\ procs'[p].pc = "discarded") =>
            /\ procs[p].job \in jobsInFlight'
            /\ jobsInFlight' = jobsInFlight
            /\ jobsDone' = jobsDone /\ jobsError' = jobsError
            /\ sems' = sems /\ downloadSemaphore' = downloadSemaphore
            /\ \E q \in DOMAIN procs : q # p /\ Active(q) /\ procs[q].job = procs[p].job]_vars
  /\ [](\A q \in DOMAIN procs :
          procs[q].pc = "discarded" =>
            /\ procs[q].controls = 0 /\ procs[q].prints = 0
            /\ procs[q].counted = "" /\ procs[q].polls = 0
            /\ procs[q].file = "none" /\ procs[q].printer = EmptyPrinter
            /\ \A p \in DOMAIN procs :
                 (p # q /\ procs[p].job = procs[q].job) => procs[p].prints <= 1)

\* C16's case: the second delivery of a job was discarded and the first
\* has printed and exited, the in-flight set empty again
C16_Witness ==
  \E p, q \in DOMAIN procs :
    /\ procs[p].job = procs[q].job
    /\ procs[q].pc = "discarded"
    /\ procs[p].pc = "done" /\ procs[p].prints = 1
    /\ procs[p].counted = "done"
    /\ jobsInFlight = {}


\* the submit permit processor p holds is counted by its printer's semaphore
HoldsSubmitPermit(p) ==
  /\ procs[p].printer.CUPSJobSemaphore \in DOMAIN sems
  /\ sems[procs[p].printer.CUPSJobSemaphore] >= 1

\* C17: the steps of one processor are ordered.  Print is called only once
\* the download has succeeded (the temp file exists) and the submit permit
\* was acquired; followJob starts only from a Print that returned a job;
\* the permit and the temp file are kept while followJob runs and are
\* released and deleted only after Print failed or followJob exited; the
\* job leaves the in-flight set only after that.
C17_StepsOrdered ==
  /\ [](\A p \in DOMAIN procs :
          /\ procs[p].pc \in {"print", "follow", "cleanup"} =>
               /\ procs[p].file = "exists"
               /\ HoldsSubmitPermit(p)
               /\ procs[p].job \in jobsInFlight
          /\ procs[p].pc = "follow" => (procs[p].prints = 1 /\ procs[p].failure = "")
          /\ procs[p].pc = "cleanup" => (FollowExited(p) \/ procs[p].failure = "print")
          /\ procs[p].pc = "deleteInFlight" =>
               /\ procs[p].file # "exists"
               /\ procs[p].printer = EmptyPrinter
               /\ procs[p].job \in jobsInFlight)
  /\ [][\A p \in DOMAIN procs :
          /\ procs'[p].prints # procs[p].prints =>
               (procs[p].pc = "print" /\ procs'[p].prints = procs[p].prints + 1)
          /\ (procs'[p].pc = "print" /\ procs[p].pc # "print") =>
               /\ procs[p].pc = "acquireSubmit"
               /\ sems'[procs[p].printer.CUPSJobSemaphore] =
                    sems[procs[p].printer.CUPSJobSemaphore] + 1
          /\ (procs'[p].pc = "acquireSubmit" /\ procs[p].pc # "acquireSubmit") =>
               (procs[p].pc = "download" /\ procs'[p].failure = "")
          /\ (procs'[p].pc = "follow" /\ procs[p].pc # "follow") =>
               procs[p].pc = "print"
          /\ (procs[p].file = "exists" /\ procs'[p].file # "exists") =>
               procs[p].pc \in {"download", "cleanup"}
          /\ (procs[p].job \in jobsInFlight /\ procs[p].job \notin jobsInFlight'
              /\ Active(p)) => procs[p].pc = "deleteInFlight"]_vars

\* C17's case: a processor has printed, followed its job to Completed over
\* two polls, released and cleaned up, and left the in-flight set while
\* another is still following its own job
C17_Witness ==
  \E p, q \in DOMAIN procs :
    /\ procs[p].pc = "done" /\ procs[p].prints = 1 /\ procs[p].polls = 2
    /\ procs[p].counted = "done" /\ procs[p].file = "deleted"
    /\ procs[p].job \notin jobsInFlight
    /\ procs[q].pc = "follow" /\ procs[q].job \in jobsInFlight


\* the processors that have made their call of incrementJobsProcessed
Counted(c) == {p \in DOMAIN procs : procs[p].counted = c}

\* C18: a processor that passed the dedupe step increments one of jobsDone
\* and jobsError, once, before it exits: jobsDone and jobsError are the
\* numbers of processors that counted a success and an error, a processor
\* past its terminal step has counted, one that has not reached it has
\* not, and a step changes the counters by at most one, never downwards.
C18_CountedExactlyOnce ==
  /\ [](/\ jobsDone = Cardinality(Counted("done"))
        /\ jobsError = Cardinality(Counted("error"))
        /\ \A p \in DOMAIN procs :
             /\ procs[p].pc = "done" => procs[p].counted \in {"done", "error"}
             /\ procs[p].pc \in {"idle", "start", "discarded", "assemble", "abort",
                                 "acquireDownload", "download", "acquireSubmit",
                                 "print", "follow"} => procs[p].counted = "")
  /\ [][/\ jobsDone' \in {jobsDone, jobsDone + 1}
        /\ jobsError' \in {jobsError, jobsError + 1}
        /\ jobsDone' + jobsError' <= jobsDone + jobsError + 1
        /\ \A p \in DOMAIN procs :
             procs[p].counted # "" => procs'[p].counted = procs[p].counted]_vars

\* C18's case: every processor has exited, one counted done after its
\* follow and one counted an error after a failed Print
C18_Witness ==
  /\ \A p \in DOMAIN procs : procs[p].pc = "done"
  /\ \E p, q \in DOMAIN procs :
       /\ procs[p].counted = "done"
       /\ procs[q].counted = "error" /\ procs[q].failure = "print"
  /\ jobsDone = 1 /\ jobsError = MaxProcs - 1


\* the processors that hold a permit of submit semaphore s
SubmitHolders(s) ==
  {p \in DOMAIN procs : /\ procs[p].pc \in {"print", "follow", "cleanup"}
                        /\ procs[p].printer.CUPSJobSemaphore = s}

Quiescent == \A p \in DOMAIN procs : procs[p].pc \in {"idle", "discarded", "done"}

\* C19: the download permits are held by exactly the processors executing
\* Download and the permits of every submit semaphore by exactly the
\* processors between Acquire and Release, so none holds both and none
\* holds one while it waits for the other; every accepted processor exits
\* in the end; and when no processor runs, the download semaphore, every
\* submit semaphore and the in-flight set are empty.
C19_NoHoldAndWaitAndQuiescence ==
  /\ [](/\ downloadSemaphore = Cardinality({p \in DOMAIN procs : procs[p].pc = "download"})
        /\ \A s \in DOMAIN sems : sems[s] = Cardinality(SubmitHolders(s))
        /\ \A p \in DOMAIN procs :
             procs[p].pc \in {"acquireDownload", "download", "acquireSubmit"} =>
               \A s \in DOMAIN sems : p \notin SubmitHolders(s))
  /\ \A p \in 1..MaxProcs : [](Active(p) => <>(procs[p].pc = "done"))
  /\ [](Quiescent =>
          /\ downloadSemaphore = 0
          /\ \A s \in DOMAIN sems : sems[s] = 0
          /\ jobsInFlight = {})

\* C19's case: a processor waits for the submit permit of a printer whose
\* permits are all held by a processor following its job, having released
\* its download permit
C19_Witness ==
  \E p, q \in DOMAIN procs :
    /\ procs[p].pc = "follow"
    /\ procs[q].pc = "acquireSubmit"
    /\ procs[q].printer.CUPSJobSemaphore = procs[p].printer.CUPSJobSemaphore
    /\ sems[procs[p].printer.CUPSJobSemaphore] = CUPSQueueSize
    /\ downloadSemaphore = 0


\* C20: the processing value GetJobStats returns is the number of
\* processors that hold a submit permit.
C20_ProcessingCountsPermitHolders ==
  GetJobStats[3] =
    Cardinality({p \in DOMAIN procs : procs[p].pc \in {"print", "follow", "cleanup"}})

=============================================================================
